---- MODULE Spec2Model ----
(***************************************************************************)
(* A model of reflectix: the run-time reflection protocol of               *)
(* reflectix-core (Type / Fields / FieldId, Unsizeable / UnsizeableMut,    *)
(* the primitive registrations) and of the code that                       *)
(* #[derive(TypeInfo)] of reflectix-macros emits for a struct or an enum   *)
(* (construct_struct, construct_enum, field, field_mut).                   *)
(*                                                                         *)
(* The derive macro is modelled in two layers, as in the source: the meta  *)
(* description it builds from the parsed declaration (create_meta_fields,  *)
(* create_meta_variants, MetaType::new) and, for every emitting function   *)
(* of mod gen, the meaning of the token stream it emits, evaluated on a    *)
(* receiver value and the call's arguments.                                *)
(***************************************************************************)
EXTENDS Integers, Sequences, FiniteSets, TLC

\* ------------------------------------------------------------------ bounds
\* scalar values stored in a field are 0..MaxVal
MaxVal == 2
\* longest argument list handed to a constructor
MaxArgs == 2

\* largest index a caller asks for in FieldId::Index
MaxIndex == 2

\* the most references the caller keeps at a time
MaxLive == 2

Vals == 0..MaxVal

\* ------------------------------------------------------- the type universe
\* the types impl_primitive! registers (reflectix-core/src/lib.rs 334-352)
Primitives ==
    {"u8", "u16", "u32", "u64", "u128", "i8", "i16", "i32", "i64", "i128",
     "usize", "isize", "String", "f32", "f64"}

\* the types of the program that derive TypeInfo
Derived == {"Pair", "Tup", "Marker", "Shape"}

\* std::any::TypeId::of::<T>(): one identity per type, here its name
TypeNames == Primitives \cup Derived

\* a parsed field (syn::Field): ident = "" stands for None (positional)
SynField(ident, ty) == [ident |-> ident, ty |-> ty]

\* a parsed variant (syn::Variant)
SynVariant(ident, fields) == [ident |-> ident, fields |-> fields]

\* the declarations the program derives TypeInfo for (syn::DeriveInput):
\*   struct Pair { a: i32, b: i32 }        struct Tup(i32, u8);
\*   struct Marker;
\*   enum Shape { Circle(i32), Square(i32), Rect { w: u8 }, Empty }
DeriveInput(t) ==
    CASE t = "Pair" ->
           [ident |-> t, data |-> "Struct",
            fields |-> <<SynField("a", "i32"), SynField("b", "i32")>>,
            variants |-> <<>>]
      [] t = "Tup" ->
           [ident |-> t, data |-> "Struct",
            fields |-> <<SynField("", "i32"), SynField("", "u8")>>,
            variants |-> <<>>]
      [] t = "Marker" ->
           [ident |-> t, data |-> "Struct", fields |-> <<>>, variants |-> <<>>]
      [] t = "Shape" ->
           [ident |-> t, data |-> "Enum", fields |-> <<>>,
            variants |-> <<SynVariant("Circle", <<SynField("", "i32")>>),
                           SynVariant("Square", <<SynField("", "i32")>>),
                           SynVariant("Rect", <<SynField("w", "u8")>>),
                           SynVariant("Empty", <<>>)>>]

\* ------------------------------------------------------------- core: FieldId
\* reflectix_core::FieldId::Named(&'static str)
Named(name) == [kind |-> "Named", name |-> name, index |-> 0]

\* reflectix_core::FieldId::Index(usize)
Index(i) == [kind |-> "Index", name |-> "", index |-> i]

\* --------------------------------------------------------------- values
\* A live value: its type, its active variant ("" for a struct or a
\* primitive) and its storage, one slot per field in the layout order of the
\* declaration; a primitive has one slot, the scalar itself.
Value(ty, variant, slots) == [ty |-> ty, variant |-> variant, slots |-> slots]

NoValue == Value("", "", <<>>)

\* a primitive value, e.g. 7i32; Box<dyn Any> arguments are built from these
Prim(ty, v) == Value(ty, "", <<v>>)

\* ----------------------------------------------------- macros: the meta layer
\* usize::to_string for the indexes a declaration can have
Digits == <<"0", "1", "2", "3", "4", "5", "6", "7", "8", "9">>

to_string(n) == Digits[n + 1]

\* the value of an integer literal token, as rustc reads it
LitValue(lit) == (CHOOSE k \in 1..Len(Digits) : Digits[k] = lit) - 1

\* reflectix-macros FieldId::Named(syn::Ident)
MetaNamed(ident) == [kind |-> "Named", ident |-> ident, lit |-> ""]

\* reflectix-macros FieldId::Index(syn::LitInt)
MetaIndex(lit) == [kind |-> "Index", ident |-> "", lit |-> lit]

\* reflectix-macros Field { id, ty_ident }
MetaField(id, ty_ident) == [id |-> id, ty_ident |-> ty_ident]

\* reflectix-macros Fields::{Named, Indexed, Unit}; Unit has no list
MetaFields(shape, list) == [shape |-> shape, list |-> list]

\* Fields::iter(): the fields of Named and Indexed, nothing for Unit
FieldsIter(fields) == IF fields.shape = "Unit" THEN <<>> ELSE fields.list

\* create_meta_fields: a Named id for a field with an ident, otherwise an
\* Index id carrying the position; the shape follows the FIRST field's id
create_meta_fields(fields) ==
    LET new_fields ==
            [k \in 1..Len(fields) |->
                MetaField(IF fields[k].ident # ""
                             THEN MetaNamed(fields[k].ident)
                             ELSE MetaIndex(to_string(k - 1)),
                          fields[k].ty)]
    IN  IF new_fields = <<>>
           THEN MetaFields("Unit", <<>>)
           ELSE IF new_fields[1].id.kind = "Named"
                   THEN MetaFields("Named", new_fields)
                   ELSE MetaFields("Indexed", new_fields)

\* create_meta_variants: name, declaration-order discriminator, fields
create_meta_variants(variants) ==
    [k \in 1..Len(variants) |->
        [name |-> variants[k].ident,
         discriminator |-> to_string(k - 1),
         fields |-> create_meta_fields(variants[k].fields)]]

\* MetaType::new: Data::Struct(fields) or Data::Enum(variants), and the name
\* of the constant that will hold the Type
MetaType_new(input) ==
    [ident |-> input.ident,
     data |-> input.data,
     fields |-> IF input.data = "Struct"
                   THEN create_meta_fields(input.fields)
                   ELSE MetaFields("Unit", <<>>),
     variants |-> IF input.data = "Enum"
                     THEN create_meta_variants(input.variants)
                     ELSE <<>>]

Meta(t) == MetaType_new(DeriveInput(t))

\* the meta variant of an enum with the given name (the set is empty or a
\* singleton: rustc rejects two variants of one name)
VariantsNamed(meta, name) ==
    {k \in 1..Len(meta.variants) : meta.variants[k].name = name}

\* ------------------------------------------------ rustc: layout of a value
\* the fields of the struct, or of the named variant of the enum, as declared
DeclaredFields(ty, variant) ==
    LET input == DeriveInput(ty)
    IN  IF input.data = "Struct"
           THEN input.fields
           ELSE LET ks == {k \in 1..Len(input.variants) :
                              input.variants[k].ident = variant}
                IN  IF ks = {} THEN <<>>
                    ELSE input.variants[CHOOSE k \in ks : TRUE].fields

\* the slot a place expression or binding denotes: self.a / `ref a` is the
\* field declared with that name, self.0 / the k-th tuple binding is the
\* k-th field. 0 when the declaration has no such field.
SlotOf(ty, variant, id) ==
    LET decl == DeclaredFields(ty, variant)
        hit == IF id.kind = "Named"
                  THEN {k \in 1..Len(decl) : decl[k].ident = id.ident}
                  ELSE {k \in 1..Len(decl) :
                           decl[k].ident = "" /\ k - 1 = LitValue(id.lit)}
    IN  IF hit = {} THEN 0 ELSE CHOOSE k \in hit : TRUE

\* --------------------------------------------------------------- state
VARIABLES
    owner,       \* the live value the program reflects on (`self`)
    hash_order,  \* per emitted constructor: the iteration order of its
                 \* field_identifiers HashMap when the derive macro ran
    handle,      \* the Unsizeable / UnsizeableMut the last field call returned
    ref,         \* the typed reference the last downcast returned
    live,        \* the references the caller still holds, oldest first
    last         \* the last call: its operation, its inputs and its result

vars == <<owner, hash_order, handle, ref, live, last>>

\* ------------------------------------------------- core: type-erased handle
\* an address: the slot-th field of the value stored at base ("owner": the
\* live value; "box": the Box a constructor returned); slot 0 is null
Ptr(base, slot) == [base |-> base, slot |-> slot]

NullPtr == Ptr("", 0)

NoHandle == [kind |-> "none", ptr |-> NullPtr, target_id |-> ""]

\* Unsizeable::new(ptr, target_id)
Unsizeable_new(ptr, target_id) ==
    [kind |-> "shared", ptr |-> ptr, target_id |-> target_id]

\* UnsizeableMut::new(ptr, target_id)
UnsizeableMut_new(ptr, target_id) ==
    [kind |-> "mut", ptr |-> ptr, target_id |-> target_id]

\* Option<&T> / Option<&mut T>
None == [some |-> FALSE, mut |-> FALSE, ptr |-> NullPtr, ty |-> ""]

SomeRef(mut, ptr, ty) == [some |-> TRUE, mut |-> mut, ptr |-> ptr, ty |-> ty]

\* downcast_ref without the TypeId test
downcast_ref_unchecked(h, T) ==
    IF h.ptr = NullPtr THEN None ELSE SomeRef(FALSE, h.ptr, T)

\* Unsizeable::downcast_ref::<T>: None unless TypeId::of::<T>() is the
\* handle's target_id; then the pointer cast to *const T, as_ref() of which
\* is None only for a null pointer
downcast_ref(h, T) ==
    IF T # h.target_id THEN None
    ELSE IF h.ptr = NullPtr THEN None
    ELSE SomeRef(FALSE, h.ptr, T)

\* UnsizeableMut::downcast_mut::<T>: the same test, yielding &mut T
downcast_mut(h, T) ==
    IF T # h.target_id THEN None
    ELSE IF h.ptr = NullPtr THEN None
    ELSE SomeRef(TRUE, h.ptr, T)

\* Result<Unsizeable, FieldAccessError>
FieldOk(h) == [ok |-> TRUE, err |-> "", handle |-> h]

FieldErr(e) == [ok |-> FALSE, err |-> e, handle |-> NoHandle]

\* Result<Box<dyn Any>, RuntimeConstructError>
CtorOk(v) == [ok |-> TRUE, err |-> "", index |-> 0, expected |-> "", val |-> v]

CtorErr(e) == [ok |-> FALSE, err |-> e, index |-> 0, expected |-> "", val |-> NoValue]

\* RuntimeConstructError::UnexpectedType { index, expected }
UnexpectedType(index, expected) ==
    [ok |-> FALSE, err |-> "UnexpectedType", index |-> index,
     expected |-> expected, val |-> NoValue]

\* ------------------------------------------------- the schema constants
\* reflectix_core::Type { ident, data }: data is "Primitive", "Struct" (with
\* fields), "Enum" (with variants) or "Unit"
Type(ident, data, fields, variants) ==
    [ident |-> ident, data |-> data, fields |-> fields, variants |-> variants]

\* impl_primitive!: const <NAME>_INFO = Type { ident: stringify!($name),
\* data: Data::Primitive }
impl_primitive_INFO(name) == Type(name, "Primitive", MetaFields("Unit", <<>>), <<>>)

\* collect_fields: the Fields expression of the constant; a named field gets
\* FieldId::Named(<name>), a positional one the path FieldId::Indexed(<lit>),
\* each with the INFO of its type (here: the type's name)
collect_fields(fields) ==
    IF fields.shape = "Unit"
       THEN [shape |-> "Unit", list |-> <<>>]
       ELSE [shape |-> fields.shape,
             list |-> [k \in 1..Len(fields.list) |->
                         [id |-> IF fields.shape = "Named"
                                    THEN [kind |-> "Named",
                                          name |-> fields.list[k].id.ident,
                                          index |-> 0]
                                    ELSE [kind |-> "Indexed", name |-> "",
                                          index |-> LitValue(fields.list[k].id.lit)],
                          ty |-> fields.list[k].ty_ident]]]

\* collect_variants: Variant { ident, fields, discriminator } per variant,
\* the discriminator counted again from the position
collect_variants(variants) ==
    [k \in 1..Len(variants) |->
        [ident |-> variants[k].name,
         fields |-> collect_fields(variants[k].fields),
         discriminator |-> k - 1]]

\* create_const_definition: const <IDENT>_TYPE_INFO = Type { ident, data }
create_const_definition(meta) ==
    IF meta.data = "Struct"
       THEN Type(meta.ident, "Struct", collect_fields(meta.fields), <<>>)
       ELSE Type(meta.ident, "Enum", collect_fields(MetaFields("Unit", <<>>)),
                 collect_variants(meta.variants))

\* --------------------------------------- gen: the emitted field / field_mut
\* field_id_to_tokens with every pattern emitted as FieldId::Named
field_id_to_tokens_named(id) ==
    IF id.kind = "Named" THEN Named(id.ident) ELSE Named(id.lit)

\* field_id_to_tokens: the id as a reflectix_core::FieldId pattern
field_id_to_tokens(id) ==
    IF id.kind = "Named" THEN Named(id.ident) ELSE Index(LitValue(id.lit))

\* create_dyn_field_access_match with every arm borrowing the FIRST field
\* of the list instead of its own
create_dyn_field_access_match_first(self, self_addr, input_id, fields, is_mut_ref) ==
    LET list == FieldsIter(fields)
        arms == {k \in 1..Len(list) : field_id_to_tokens(list[k].id) = input_id}
    IN  IF arms = {}
           THEN FieldErr("NotFound")
           ELSE LET k == CHOOSE a \in arms : \A b \in arms : a <= b
                    field_ref == Ptr(self_addr,
                                     SlotOf(self.ty, self.variant, list[1].id))
                    target_id == list[k].ty_ident
                IN  IF is_mut_ref
                       THEN FieldOk(UnsizeableMut_new(field_ref, target_id))
                       ELSE FieldOk(Unsizeable_new(field_ref, target_id))

\* create_dyn_field_access_match: `match id { <id of field k> => return
\* Ok(handle of field k), ..., _ => return Err(NotFound) }`. self is the
\* receiver, self_addr where it is stored. The first matching arm is taken;
\* an empty field list leaves the wildcard arm alone. The arm of field k
\* borrows the place attr_access_name denotes (self.<name>, self.<index>, or
\* the binding <name> / _<index> of the variant pattern) and records the
\* TypeId of the field's declared type. The model gives self.<index> its
\* meaning as a tuple field access, although the macro builds it with
\* syn::Ident::new from the digits of the index.
create_dyn_field_access_match(self, self_addr, input_id, fields, is_mut_ref) ==
    LET list == FieldsIter(fields)
        arms == {k \in 1..Len(list) : field_id_to_tokens(list[k].id) = input_id}
    IN  IF arms = {}
           THEN FieldErr("NotFound")
           ELSE LET k == CHOOSE a \in arms : \A b \in arms : a <= b
                    field_ref == Ptr(self_addr,
                                     SlotOf(self.ty, self.variant, list[k].id))
                    target_id == list[k].ty_ident
                IN  IF is_mut_ref
                       THEN FieldOk(UnsizeableMut_new(field_ref, target_id))
                       ELSE FieldOk(Unsizeable_new(field_ref, target_id))

\* create_dyn_variant_access_match that tries the variants in declaration
\* order whatever the receiver's active variant is, taking the first one
\* that declares the id
create_dyn_variant_access_match_any(self, self_addr, input_id, variants, is_mut_ref) ==
    LET hits == {k \in 1..Len(variants) :
                    /\ variants[k].fields.shape # "Unit"
                    /\ create_dyn_field_access_match(
                           [self EXCEPT !.variant = variants[k].name], self_addr,
                           input_id, variants[k].fields, is_mut_ref).ok}
    IN  IF hits = {}
           THEN FieldErr("NotFound")
           ELSE LET k == CHOOSE a \in hits : \A b \in hits : a <= b
                IN  create_dyn_field_access_match(
                        [self EXCEPT !.variant = variants[k].name], self_addr,
                        input_id, variants[k].fields, is_mut_ref)

\* create_dyn_variant_access_match whose arms borrow `self`, the enum value
\* itself, instead of the binding of the field the pattern introduced
create_dyn_variant_access_match_self(self, self_addr, input_id, variants, is_mut_ref) ==
    LET arms == {k \in 1..Len(variants) : variants[k].name = self.variant}
    IN  IF arms = {}
           THEN FieldErr("UnmatchingDiscriminator")
           ELSE LET k == CHOOSE a \in arms : \A b \in arms : a <= b
                    r == create_dyn_field_access_match(
                             self, self_addr, input_id,
                             variants[k].fields, is_mut_ref)
                IN  IF variants[k].fields.shape = "Unit"
                       THEN FieldErr("Unit")
                       ELSE IF r.ok
                               THEN FieldOk([r.handle EXCEPT
                                                !.ptr = Ptr(self_addr, 0)])
                               ELSE r

\* create_dyn_variant_access_match: `match self { Self::V(..) => <arm of V>,
\* ..., _ => return Err(UnmatchingDiscriminator) }`; the arm of a variant
\* with fields is the field match over that variant's fields, the arm of a
\* unit variant returns Err(Unit)
create_dyn_variant_access_match(self, self_addr, input_id, variants, is_mut_ref) ==
    LET arms == {k \in 1..Len(variants) : variants[k].name = self.variant}
    IN  IF arms = {}
           THEN FieldErr("UnmatchingDiscriminator")
           ELSE LET k == CHOOSE a \in arms : \A b \in arms : a <= b
                IN  IF variants[k].fields.shape = "Unit"
                       THEN FieldErr("Unit")
                       ELSE create_dyn_field_access_match(
                                self, self_addr, input_id,
                                variants[k].fields, is_mut_ref)

\* create_get_dyn_field_method_body: the body of field / field_mut
create_get_dyn_field_method_body(meta, self, self_addr, id, is_mut) ==
    IF meta.data = "Struct"
       THEN create_dyn_field_access_match(self, self_addr, id, meta.fields, is_mut)
       ELSE create_dyn_variant_access_match(self, self_addr, id, meta.variants, is_mut)

\* ----------------------------------------- gen: the emitted constructors
\* the path a constructor body builds: Self, or Self::Variant
TypeIdent(ty, variant) == [ty |-> ty, variant |-> variant]

\* Box<dyn Any>::downcast::<T>() is Ok exactly for a box holding a T
BoxIs(box, T) == box.ty = T

\* the T moved out of a Box<T> (ptr::read of the raw box) of a primitive
Unboxed(box) == box.slots[1]

\* field_downcast_stmts with each statement taking the FIRST remaining
\* argument (args.remove(0)) instead of popping the last
RECURSIVE field_downcast_stmts_front(_, _, _, _)
field_downcast_stmts_front(list, k, args, boxed) ==
    IF k = 0
       THEN CtorOk(boxed)
       ELSE IF args = <<>>
               THEN CtorErr("NotEnoughArgs")
               ELSE LET curr_box == Head(args)
                    IN  IF ~BoxIs(curr_box, list[k].ty_ident)
                           THEN UnexpectedType(k - 1, list[k].ty_ident)
                           ELSE field_downcast_stmts_front(
                                    list, k - 1, Tail(args),
                                    [boxed EXCEPT ![k] = Unboxed(curr_box)])

\* the downcast statements of create_dyn_fields_ctor_body, emitted for
\* index = N-1 down to 0 (fields.iter().enumerate().rev()): each pops the
\* LAST remaining argument (NotEnoughArgs when none is left) and downcasts
\* it to the type of field `index` (UnexpectedType{index, expected}
\* otherwise). k is the 1-based number of the statement's field; boxed
\* collects boxed_<index>. The result is a CtorErr or CtorOk(boxed).
RECURSIVE field_downcast_stmts(_, _, _, _)
field_downcast_stmts(list, k, args, boxed) ==
    IF k = 0
       THEN CtorOk(boxed)
       ELSE IF args = <<>>
               THEN CtorErr("NotEnoughArgs")
               ELSE LET curr_box == args[Len(args)]
                        rest == SubSeq(args, 1, Len(args) - 1)
                    IN  IF ~BoxIs(curr_box, list[k].ty_ident)
                           THEN UnexpectedType(k - 1, list[k].ty_ident)
                           ELSE field_downcast_stmts(
                                    list, k - 1, rest,
                                    [boxed EXCEPT ![k] = Unboxed(curr_box)])

\* the key under which hash_order holds the HashMap order of a constructor
HashKey(type_ident) ==
    IF type_ident.variant = "" THEN type_ident.ty ELSE type_ident.variant

\* create_dyn_fields_ctor_body: the downcast statements, then the value.
\* field_identifiers maps each field id to its boxed_<index> variable and is
\* iterated in HashMap order (order: a permutation of the fields).
\*   all ids Index: `Type(#(#keys),*)`, the KEYS of the map as the
\*     positional expressions: the index literals, in HashMap order;
\*   otherwise:     `Type{#(#keys: #values),*}`, each drained key
\*     initialised by its own value.
\* Fields::Unit: `Ok(Box::new(Type))`, the arguments untouched.
create_dyn_fields_ctor_body(type_ident, args, fields) ==
    IF fields.shape = "Unit"
       THEN CtorOk(Value(type_ident.ty, type_ident.variant, <<>>))
       ELSE
         LET list == FieldsIter(fields)
             N == Len(list)
             stmts == field_downcast_stmts(list, N, args, [k \in 1..N |-> 0])
             order == hash_order[HashKey(type_ident)]
             keys == [j \in 1..N |-> list[order[j]].id]
             values == [j \in 1..N |-> stmts.val[order[j]]]
             is_indexed == \A k \in 1..N : list[k].id.kind = "Index"
         IN  IF ~stmts.ok
                THEN stmts
                ELSE IF is_indexed
                        THEN CtorOk(Value(type_ident.ty, type_ident.variant,
                                 [s \in 1..N |-> LitValue(keys[s].lit)]))
                        ELSE CtorOk(Value(type_ident.ty, type_ident.variant,
                                 [s \in 1..N |->
                                    values[CHOOSE j \in 1..N :
                                             SlotOf(type_ident.ty,
                                                    type_ident.variant,
                                                    keys[j]) = s]]))

\* create_dyn_struct_ctor whose unit body still asks for one argument
create_dyn_struct_ctor_unit_pops(meta, args) ==
    IF meta.data = "Struct"
       THEN IF meta.fields.shape = "Unit" /\ args = <<>>
               THEN CtorErr("NotEnoughArgs")
               ELSE create_dyn_fields_ctor_body(TypeIdent(meta.ident, ""), args,
                                                meta.fields)
       ELSE CtorErr("NotStruct")

\* create_dyn_struct_ctor answering an enum with NotEnum
create_dyn_struct_ctor_swapped(meta, args) ==
    IF meta.data = "Struct"
       THEN create_dyn_fields_ctor_body(TypeIdent(meta.ident, ""), args, meta.fields)
       ELSE CtorErr("NotEnum")

\* create_dyn_struct_ctor: the body of construct_struct
create_dyn_struct_ctor(meta, args) ==
    IF meta.data = "Struct"
       THEN create_dyn_fields_ctor_body(TypeIdent(meta.ident, ""), args, meta.fields)
       ELSE CtorErr("NotStruct")

\* create_dyn_enum_ctor with every failure inside a variant's arm reported
\* as InvalidVariant
create_dyn_enum_ctor_lossy(meta, variant, args) ==
    IF meta.data = "Struct"
       THEN CtorErr("NotEnum")
       ELSE LET arms == VariantsNamed(meta, variant)
            IN  IF arms = {}
                   THEN CtorErr("InvalidVariant")
                   ELSE LET k == CHOOSE a \in arms : \A b \in arms : a <= b
                            v == meta.variants[k]
                            r == IF v.fields.shape = "Unit"
                                    THEN CtorOk(Value(meta.ident, v.name, <<>>))
                                    ELSE create_dyn_fields_ctor_body(
                                             TypeIdent(meta.ident, v.name), args,
                                             v.fields)
                        IN  IF r.ok THEN r ELSE CtorErr("InvalidVariant")

\* create_dyn_enum_ctor: the body of construct_enum: NotEnum for a struct;
\* for an enum `match variant { "<name>" => <ctor of the variant>, ...,
\* _ => return Err(InvalidVariant) }`
create_dyn_enum_ctor(meta, variant, args) ==
    IF meta.data = "Struct"
       THEN CtorErr("NotEnum")
       ELSE LET arms == VariantsNamed(meta, variant)
            IN  IF arms = {}
                   THEN CtorErr("InvalidVariant")
                   ELSE LET k == CHOOSE a \in arms : \A b \in arms : a <= b
                            v == meta.variants[k]
                        IN  IF v.fields.shape = "Unit"
                               THEN CtorOk(Value(meta.ident, v.name, <<>>))
                               ELSE create_dyn_fields_ctor_body(
                                        TypeIdent(meta.ident, v.name), args, v.fields)

\* ------------------------------------------- core: impl_primitive!($name)
\* construct_struct of a primitive
impl_primitive_construct_struct(args) == CtorErr("Primitive")

\* construct_enum of a primitive
impl_primitive_construct_enum(variant, args) == CtorErr("Primitive")

\* impl_primitive_field answering NotFound
impl_primitive_field_not_found(id) == FieldErr("NotFound")

\* field and field_mut of a primitive
impl_primitive_field(id) == FieldErr("Unit")

\* ------------------------------------- the TypeInfoDynamic methods of a value
\* dyn dispatch: the impl of the receiver's own type
construct_struct(self, args) ==
    IF self.ty \in Primitives
       THEN impl_primitive_construct_struct(args)
       ELSE create_dyn_struct_ctor(Meta(self.ty), args)

construct_enum(self, variant, args) ==
    IF self.ty \in Primitives
       THEN impl_primitive_construct_enum(variant, args)
       ELSE create_dyn_enum_ctor(Meta(self.ty), variant, args)

\* get_dynamic answering every type with the constant of a primitive
get_dynamic_primitive(self) == impl_primitive_INFO(self.ty)

get_dynamic(self) ==
    IF self.ty \in Primitives
       THEN impl_primitive_INFO(self.ty)
       ELSE create_const_definition(Meta(self.ty))

\* str::to_ascii_uppercase on the names of the program's types
to_ascii_uppercase(name) ==
    CASE name = "u8" -> "U8"       [] name = "u16" -> "U16"
      [] name = "u32" -> "U32"     [] name = "u64" -> "U64"
      [] name = "u128" -> "U128"   [] name = "i8" -> "I8"
      [] name = "i16" -> "I16"     [] name = "i32" -> "I32"
      [] name = "i64" -> "I64"     [] name = "i128" -> "I128"
      [] name = "usize" -> "USIZE" [] name = "isize" -> "ISIZE"
      [] name = "String" -> "STRING"
      [] name = "f32" -> "F32"     [] name = "f64" -> "F64"
      [] name = "Pair" -> "PAIR"   [] name = "Tup" -> "TUP"
      [] name = "Marker" -> "MARKER"
      [] name = "Shape" -> "SHAPE"

\* MetaType::new: info_ident, the name of the constant that holds the Type
\* of a derived type; impl_primitive!: [<$name:upper _INFO>]
info_ident(ident) ==
    IF ident \in Primitives
       THEN to_ascii_uppercase(ident) \o "_INFO"
       ELSE to_ascii_uppercase(ident) \o "_TYPE_INFO"

\* the constants the program defines: one `const <info_ident>: Type` per
\* primitive and per derived type
ConstItems ==
    {[name |-> info_ident(t), value |-> impl_primitive_INFO(t)] : t \in Primitives}
    \cup {[name |-> info_ident(t), value |-> create_const_definition(Meta(t))] :
             t \in Derived}

\* <T as TypeInfo>::INFO: `const INFO: &'static Type = &<info_ident>`, the
\* constant found under that name
TypeInfo_INFO(ty) ==
    (CHOOSE c \in ConstItems : c.name = info_ident(ty)).value

field(self, self_addr, id) ==
    IF self.ty \in Primitives
       THEN impl_primitive_field(id)
       ELSE create_get_dyn_field_method_body(Meta(self.ty), self, self_addr, id, FALSE)

field_mut(self, self_addr, id) ==
    IF self.ty \in Primitives
       THEN impl_primitive_field(id)
       ELSE create_get_dyn_field_method_body(Meta(self.ty), self, self_addr, id, TRUE)

\* ------------------------------------------------------ the caller's inputs
\* the identifiers a caller passes to field / field_mut
FieldIds ==
    {Named(n) : n \in {"a", "b", "w", "x"}} \cup {Index(i) : i \in 0..MaxIndex}

\* the variant names a caller passes to construct_enum
VariantNames == {"Circle", "Square", "Rect", "Empty", "Triangle"}

\* the boxed arguments a caller passes to a constructor, and their lists
ArgTypes == {"i32", "u8"}

ArgBoxes == {Prim(t, v) : t \in ArgTypes, v \in {1, 2}}

ArgLists == UNION {[1..n -> ArgBoxes] : n \in 0..MaxArgs}

\* the meta fields a constructor body is emitted for
FieldsOfIdent(type_ident) ==
    LET meta == Meta(type_ident.ty)
    IN  IF meta.data = "Struct"
           THEN meta.fields
           ELSE meta.variants[CHOOSE k \in VariantsNamed(meta, type_ident.variant) :
                                TRUE].fields

\* the types a caller names in downcast_ref::<T> / downcast_mut::<T>
DowncastTypes == {"i32", "u8", "String", "Pair"}

\* every constructor body with a HashMap: the structs and variants with fields
CtorIdents ==
    {TypeIdent(t, "") :
        t \in {d \in Derived : Meta(d).data = "Struct"
                               /\ Meta(d).fields.shape # "Unit"}}
    \cup UNION {{TypeIdent(t, Meta(t).variants[k].name) :
                    k \in {j \in 1..Len(Meta(t).variants) :
                              Meta(t).variants[j].fields.shape # "Unit"}} :
                t \in {d \in Derived : Meta(d).data = "Enum"}}

\* the iteration orders a HashMap of N entries can have
Perms(N) == {p \in [1..N -> 1..N] : \A x, y \in 1..N : p[x] = p[y] => x = y}

\* the orders the build can give the HashMaps of all constructors
HashOrders ==
    LET keys == {HashKey(c) : c \in CtorIdents}
        count(key) == Len(FieldsIter(FieldsOfIdent(
                          CHOOSE c \in CtorIdents : HashKey(c) = key)))
        most == CHOOSE n \in {count(key) : key \in keys} :
                    \A key \in keys : count(key) <= n
    IN  {h \in [keys -> UNION {Perms(n) : n \in 1..most}] :
            \A key \in keys : h[key] \in Perms(count(key))}

\* the values the program starts with: one of each reflectable type
InitOwners ==
    {Prim(t, 0) : t \in Primitives}
    \cup {Value("Pair", "", <<0, 0>>), Value("Tup", "", <<0, 0>>),
          Value("Marker", "", <<>>), Value("Shape", "Empty", <<>>)}

\* ------------------------------------------------------------- the calls
\* the record of a call; the fields a call does not use keep these values.
\* A downcast and a write keep the id and the result of the field call whose
\* handle they use.
NoCall ==
    [op |-> "none", id |-> Index(0), variant |-> "", args |-> <<>>, T |-> "",
     v |-> 0, ctor |-> CtorErr(""), fres |-> FieldErr(""), dres |-> None]

\* where a pointer points: the live value or the last constructed Box
Mem(base) == IF base = "box" THEN last.ctor.val ELSE owner

\* *ptr
Deref(ptr) == Mem(ptr.base).slots[ptr.slot]

Init ==
    /\ owner \in InitOwners
    /\ hash_order \in HashOrders
    /\ handle = NoHandle
    /\ ref = None
    /\ live = <<>>
    /\ last = NoCall

\* A handle is a transient accessor: it is made by a field call, consumed by
\* the downcast that follows and discarded; a later call on the owner (which
\* a live UnsizeableMut or &mut T would forbid anyway, borrowing the owner
\* exclusively) finds no earlier handle or reference in use.

\* the references the caller holds once a downcast has returned r: the
\* result is a `&'a T` / `&'a mut T` whose lifetime 'a is that of the borrow
\* of the owner, not of the handle, so the caller may keep it next to the
\* ones earlier downcasts of the same handle returned (at most MaxLive are
\* kept, the oldest is let go first); None adds nothing
Held(refs, r) ==
    IF ~r.some
       THEN refs
       ELSE IF Len(refs) < MaxLive
               THEN Append(refs, r)
               ELSE Append(Tail(refs), r)

\* the Box a constructor returned is still held by the caller
BoxHeld == last.op \in {"construct_struct", "construct_enum"}

\* owner.construct_struct(args)
ConstructStruct ==
    \E args \in ArgLists :
        /\ ~BoxHeld
        /\ last' = [NoCall EXCEPT !.op = "construct_struct", !.args = args,
                                  !.ctor = construct_struct(owner, args)]
        /\ handle' = NoHandle
        /\ ref' = None
        /\ live' = <<>>
        /\ UNCHANGED <<owner, hash_order>>

\* owner.construct_enum(variant, args)
ConstructEnum ==
    \E variant \in VariantNames, args \in ArgLists :
        /\ ~BoxHeld
        /\ last' = [NoCall EXCEPT !.op = "construct_enum", !.args = args,
                                  !.variant = variant,
                                  !.ctor = construct_enum(owner, variant, args)]
        /\ handle' = NoHandle
        /\ ref' = None
        /\ live' = <<>>
        /\ UNCHANGED <<owner, hash_order>>

\* owner.field(id)
Field ==
    \E id \in FieldIds :
        LET r == field(owner, "owner", id)
        IN  /\ last' = [NoCall EXCEPT !.op = "field", !.id = id, !.fres = r]
            /\ handle' = r.handle
            /\ ref' = None
            /\ live' = <<>>
            /\ UNCHANGED <<owner, hash_order>>

\* owner.field_mut(id)
FieldMut ==
    \E id \in FieldIds :
        LET r == field_mut(owner, "owner", id)
        IN  /\ last' = [NoCall EXCEPT !.op = "field_mut", !.id = id, !.fres = r]
            /\ handle' = r.handle
            /\ ref' = None
            /\ live' = <<>>
            /\ UNCHANGED <<owner, hash_order>>

\* handle.downcast_ref::<T>() on a live Unsizeable
DowncastRef ==
    \E T \in DowncastTypes :
        /\ handle.kind = "shared"
        /\ ref' = downcast_ref(handle, T)
        /\ live' = Held(live, ref')
        /\ last' = [last EXCEPT !.op = "downcast_ref", !.T = T, !.dres = ref']
        /\ UNCHANGED <<owner, hash_order, handle>>

\* handle.downcast_mut::<T>() on a live UnsizeableMut
DowncastMut ==
    \E T \in DowncastTypes :
        /\ handle.kind = "mut"
        /\ ref' = downcast_mut(handle, T)
        /\ live' = Held(live, ref')
        /\ last' = [last EXCEPT !.op = "downcast_mut", !.T = T, !.dres = ref']
        /\ UNCHANGED <<owner, hash_order, handle>>

\* the value after v is stored at its slot-th field. A store at the address
\* of the value itself (slot 0) lands where an enum keeps its discriminant:
\* the value becomes the variant numbered v, its fields zeroed
Store(val, slot, v) ==
    IF slot \in 1..Len(val.slots)
       THEN [val EXCEPT !.slots[slot] = v]
       ELSE IF val.ty \in Derived /\ DeriveInput(val.ty).data = "Enum"
               THEN LET variants == DeriveInput(val.ty).variants
                        tag == variants[(v % Len(variants)) + 1].ident
                    IN  Value(val.ty, tag,
                              [k \in 1..Len(DeclaredFields(val.ty, tag)) |-> 0])
               ELSE val

\* *r = v through a live &mut T
Write ==
    \E v \in Vals :
        /\ ref.some /\ ref.mut
        /\ owner' = Store(owner, ref.ptr.slot, v)
        /\ last' = [last EXCEPT !.op = "write", !.v = v]
        /\ UNCHANGED <<hash_order, handle, ref, live>>

\* owner = *boxed.downcast().unwrap(): the constructed value replaces the
\* live one; no borrow of the old value outlives the assignment
Replace ==
    /\ last.ctor.ok
    /\ owner' = last.ctor.val
    /\ handle' = NoHandle
    /\ ref' = None
    /\ live' = <<>>
    /\ last' = [NoCall EXCEPT !.op = "replace"]
    /\ UNCHANGED hash_order

\* the caller drops the Result of the last constructor call
DropBox ==
    /\ BoxHeld
    /\ last' = [NoCall EXCEPT !.op = "drop"]
    /\ UNCHANGED <<owner, hash_order, handle, ref, live>>

Next ==
    \/ ConstructStruct
    \/ ConstructEnum
    \/ Field
    \/ FieldMut
    \/ DowncastRef
    \/ DowncastMut
    \/ Write
    \/ Replace
    \/ DropBox

Spec == Init /\ [][Next]_vars

\* ------------------------------------------------- the declared contract
\* What the declaration of a type says, read from the parsed input alone.

\* the receiver is a derived struct / enum
IsStruct(v) == v.ty \in Derived /\ DeriveInput(v.ty).data = "Struct"

IsEnum(v) == v.ty \in Derived /\ DeriveInput(v.ty).data = "Enum"

\* the identifier the k-th declared field goes by: its name, or its position
DeclaredId(decl, k) ==
    IF decl[k].ident # "" THEN Named(decl[k].ident) ELSE Index(k - 1)

AllNamed(decl) == decl # <<>> /\ \A k \in 1..Len(decl) : decl[k].ident # ""

AllPositional(decl) == decl # <<>> /\ \A k \in 1..Len(decl) : decl[k].ident = ""

\* exactly one argument per declared field, each of the field's type
ExactArgs(decl, args) ==
    /\ Len(args) = Len(decl)
    /\ \A k \in 1..Len(decl) : args[k].ty = decl[k].ty

\* the enum declares a variant of this name
DeclaresVariant(ty, name) ==
    \E k \in 1..Len(DeriveInput(ty).variants) : DeriveInput(ty).variants[k].ident = name

\* val.field(id) is Ok, its handle downcasts to T, and the reference reads v
FieldReads(val, addr, id, T, v) ==
    LET r == field(val, addr, id)
        d == downcast_ref(r.handle, T)
    IN  r.ok /\ d.some /\ Deref(d.ptr) = v

\* ---------------------------------------------------------------- claims

C2_RoundTripIndexed ==
    LET decl == DeclaredFields(owner.ty, "")
    IN  (/\ last.op = "construct_struct"
         /\ IsStruct(owner)
         /\ AllPositional(decl)
         /\ ExactArgs(decl, last.args))
        => /\ last.ctor.ok
           /\ \A k \in 1..Len(decl) :
                 FieldReads(last.ctor.val, "box", Index(k - 1),
                            decl[k].ty, Unboxed(last.args[k]))

\* C3: construct_enum with the name of a declared variant and exactly one
\* argument per field of that variant, each of the field's type, in
\* declaration order, is Ok with a value of the enum whose active variant is
\* the named one and whose i-th field holds args[i] (no field for a unit
\* variant).
C3_ConstructVariant ==
    LET decl == DeclaredFields(owner.ty, last.variant)
    IN  (/\ last.op = "construct_enum"
         /\ IsEnum(owner)
         /\ DeclaresVariant(owner.ty, last.variant)
         /\ ExactArgs(decl, last.args))
        => /\ last.ctor.ok
           /\ last.ctor.val.ty = owner.ty
           /\ last.ctor.val.variant = last.variant
           /\ last.ctor.val.slots = [k \in 1..Len(decl) |-> Unboxed(last.args[k])]

\* the field of the live value a declared identifier names, read directly
\* (owner.x, owner.0, or the binding of the active variant's pattern)
ReadDirect(val, k) == val.slots[k]

\* the declared fields of the value's struct or active variant
FieldsOf(val) == DeclaredFields(val.ty, val.variant)

\* the positions at which the value declares the identifier
DeclaredAt(val, id) ==
    {k \in 1..Len(FieldsOf(val)) : DeclaredId(FieldsOf(val), k) = id}

\* C4: a write through field_mut + downcast_mut is visible to the owner:
\* right after v is written through the &mut obtained from field_mut(id) and
\* downcast_mut to the field's type, the field id declares reads v, directly
\* on the owner and through field(id) + downcast_ref; and a step that is not
\* a write (nor the replacement of the whole value) changes no field, so the
\* reads keep returning v until the next write.
C4_MutationVisible ==
    [][/\ last'.op = "write"
          => \A k \in DeclaredAt(owner, last'.id) :
                /\ ReadDirect(owner', k) = last'.v
                /\ LET r == field(owner', "owner", last'.id)
                       d == downcast_ref(r.handle, FieldsOf(owner)[k].ty)
                   IN  r.ok /\ d.some /\ d.ptr.base = "owner"
                       /\ owner'.slots[d.ptr.slot] = last'.v
       /\ last'.op = "write" => DeclaredAt(owner, last'.id) # {}
       /\ last'.op \notin {"write", "replace"} => owner' = owner
      ]_vars

\* C4 witness: b of a Pair was written (to a value a does not hold) through
\* field_mut("b") + downcast_mut::<i32>
C4_Witness ==
    /\ last.op = "write"
    /\ owner.ty = "Pair"
    /\ last.id = Named("b")
    /\ last.fres.ok /\ last.dres.some /\ last.dres.mut /\ last.T = "i32"
    /\ owner.slots[2] = last.v
    /\ owner.slots[1] # last.v

\* C5: downcast_ref::<T> / downcast_mut::<T> on the handle of a field
\* returns a reference iff T is the field's declared type; the reference
\* then points at that field's storage (shared for downcast_ref, exclusive
\* for downcast_mut), otherwise the result is None; the live value is the
\* same before and after the call.
C5_DowncastIffIdentity ==
    [][last'.op \in {"downcast_ref", "downcast_mut"}
         => /\ owner' = owner
            /\ \A k \in DeclaredAt(owner, last'.id) :
                  /\ last'.dres.some <=> last'.T = FieldsOf(owner)[k].ty
                  /\ last'.dres.some <=> last'.T = handle.target_id
                  /\ last'.dres.some
                       => /\ last'.dres.ptr = Ptr("owner", k)
                          /\ last'.dres.mut = (last'.op = "downcast_mut")
                  /\ ~last'.dres.some => last'.dres = None
            /\ DeclaredAt(owner, last'.id) # {}
      ]_vars

\* C5 witness: the UnsizeableMut of Tup's second field was downcast to u8
C5_Witness ==
    /\ last.op = "downcast_mut"
    /\ last.dres.some
    /\ last.T = "u8"
    /\ owner.ty = "Tup"

C6_WitnessNotFound ==
    /\ last.op = "field_mut"
    /\ owner.ty = "Pair"
    /\ last.id = Index(0)
    /\ last.fres = FieldErr("NotFound")

\* C7: on an enum value, field(id) / field_mut(id) resolves id against the
\* fields of the active variant only: Unit for every id when the active
\* variant has no fields; otherwise Ok with the handle of the field the
\* active variant declares under id, and NotFound when it declares none,
\* whatever the other variants declare.
C7_ActiveVariantGating ==
    (/\ last.op \in {"field", "field_mut"}
     /\ IsEnum(owner))
    => IF FieldsOf(owner) = <<>>
          THEN last.fres = FieldErr("Unit")
          ELSE IF DeclaredAt(owner, last.id) = {}
                  THEN last.fres = FieldErr("NotFound")
                  ELSE \A k \in DeclaredAt(owner, last.id) :
                          /\ last.fres.ok
                          /\ last.fres.handle.ptr = Ptr("owner", k)
                          /\ last.fres.handle.target_id = FieldsOf(owner)[k].ty
                          /\ last.fres.handle.kind
                               = IF last.op = "field" THEN "shared" ELSE "mut"

\* C7 witness: a Circle asked for the field only Rect declares
C7_Witness ==
    /\ last.op = "field"
    /\ owner.ty = "Shape"
    /\ owner.variant = "Circle"
    /\ last.id = Named("w")
    /\ last.fres = FieldErr("NotFound")

\* C8: field(id) / field_mut(id) on a value of a fieldless struct fails with
\* FieldAccessError::Unit, for every id.
C8_UnitStructFieldIsUnit ==
    (/\ last.op \in {"field", "field_mut"}
     /\ IsStruct(owner)
     /\ FieldsOf(owner) = <<>>)
    => last.fres = FieldErr("Unit")

\* C9: a primitive is reflectable but neither constructible nor
\* decomposable: construct_struct and construct_enum fail with Primitive
\* for every argument list and variant name, field and field_mut fail with
\* Unit for every id, and its Type has Data::Primitive under its own name.
C9_PrimitivesOpaque ==
    owner.ty \in Primitives
    => /\ last.op \in {"construct_struct", "construct_enum"}
            => last.ctor = CtorErr("Primitive")
       /\ last.op \in {"field", "field_mut"}
            => last.fres = FieldErr("Unit") /\ handle = NoHandle
       /\ get_dynamic(owner).data = "Primitive"
       /\ get_dynamic(owner).ident = owner.ty

\* C9 witness: field_mut was called on a String
C9_Witness ==
    /\ owner.ty = "String"
    /\ last.op = "field_mut"
    /\ last.fres = FieldErr("Unit")

\* C10: the wrong construction entry point is rejected whatever the
\* arguments: construct_struct on an enum fails with NotStruct for every
\* argument list, construct_enum on a struct (with or without fields) fails
\* with NotEnum for every variant name and argument list.
C10_WrongEntryPoint ==
    /\ (last.op = "construct_struct" /\ IsEnum(owner))
         => last.ctor = CtorErr("NotStruct")
    /\ (last.op = "construct_enum" /\ IsStruct(owner))
         => last.ctor = CtorErr("NotEnum")

\* C10 witness: construct_struct on a Shape with arguments that would fit
\* a variant
C10_Witness ==
    /\ last.op = "construct_struct"
    /\ owner.ty = "Shape"
    /\ Len(last.args) = 1
    /\ last.ctor = CtorErr("NotStruct")

\* the fields a constructor call is to fill: those of the struct, or of the
\* variant the call names
CallFields == DeclaredFields(owner.ty, last.variant)

\* the call is construct_struct on a struct, or construct_enum on an enum
\* with the name of a declared variant
CtorCall ==
    \/ last.op = "construct_struct" /\ IsStruct(owner)
    \/ /\ last.op = "construct_enum"
       /\ IsEnum(owner)
       /\ DeclaresVariant(owner.ty, last.variant)

\* the positions (1-based) whose argument is not of the field's type
Mismatches(decl, args) ==
    {k \in 1..Len(decl) : k <= Len(args) /\ args[k].ty # decl[k].ty}

\* C11: construct_enum on an enum fails with InvalidVariant if and only if
\* the name it is given is the name of no declared variant, whatever the
\* arguments are.
C11_InvalidVariantIffUndeclared ==
    (last.op = "construct_enum" /\ IsEnum(owner))
    => (last.ctor = CtorErr("InvalidVariant")
          <=> ~DeclaresVariant(owner.ty, last.variant))
       /\ (last.ctor.err = "InvalidVariant"
          <=> ~DeclaresVariant(owner.ty, last.variant))

\* C11 witness: an undeclared name with arguments that would fit Circle,
\* rejected as InvalidVariant
C11_Witness ==
    /\ last.op = "construct_enum"
    /\ owner.ty = "Shape"
    /\ last.variant = "Triangle"
    /\ ExactArgs(DeclaredFields("Shape", "Circle"), last.args)
    /\ last.ctor = CtorErr("InvalidVariant")

C13_FirstMismatchReported ==
    (/\ CtorCall
     /\ Len(last.args) = Len(CallFields)
     /\ Mismatches(CallFields, last.args) # {})
    => LET k == CHOOSE a \in Mismatches(CallFields, last.args) :
                   \A b \in Mismatches(CallFields, last.args) : a <= b
       IN  last.ctor = UnexpectedType(k - 1, CallFields[k].ty)

\* C14 as claimed: a constructor call for N >= 1 declared fields is Ok only
\* if exactly N arguments were given and args[i], counted from the front,
\* is of field i's type for every i.
C14_OkOnlyIfExactlyN ==
    (CtorCall /\ Len(CallFields) >= 1 /\ last.ctor.ok)
    => ExactArgs(CallFields, last.args)

\* C14 as amended: a constructor call for N >= 1 declared fields is Ok only
\* if at least N arguments were given and the LAST N arguments are, in
\* order, of the types of the fields: the argument at position M - N + i
\* of a list of M arguments is of field i's type, for every i.
C14_OkOnlyIfLastNFit ==
    (CtorCall /\ Len(CallFields) >= 1 /\ last.ctor.ok)
    => /\ Len(last.args) >= Len(CallFields)
       /\ \A k \in 1..Len(CallFields) :
             last.args[Len(last.args) - Len(CallFields) + k].ty = CallFields[k].ty

\* C14 witness: Ok for a one-field variant given two arguments
C14_Witness ==
    /\ last.op = "construct_enum"
    /\ owner.ty = "Shape"
    /\ last.variant = "Rect"
    /\ Len(last.args) = Len(CallFields) + 1
    /\ last.ctor.ok

\* C15: construct_struct on a fieldless struct with no arguments is Ok with
\* the struct's one value; construct_enum naming a fieldless variant with no
\* arguments is Ok with that variant.
C15_UnitConstructs ==
    (CtorCall /\ CallFields = <<>> /\ last.args = <<>>)
    => last.ctor = CtorOk(Value(owner.ty, last.variant, <<>>))

\* C15 witness: a Marker constructed from no arguments
C15_Witness ==
    /\ last.op = "construct_struct"
    /\ owner.ty = "Marker"
    /\ last.args = <<>>
    /\ last.ctor = CtorOk(Value("Marker", "", <<>>))

\* C15 witness for a variant: Shape::Empty constructed from no arguments
C15_WitnessVariant ==
    /\ last.op = "construct_enum"
    /\ owner.ty = "Shape"
    /\ last.variant = "Empty"
    /\ last.args = <<>>
    /\ last.ctor = CtorOk(Value("Shape", "Empty", <<>>))

\* the Fields of a schema mirror a declared field list: as many entries, in
\* declaration order, each identified by its declared name or by the index
\* of its position and carrying its declared type; Named when the fields
\* are named, Indexed when positional, Unit when there are none
MirrorsFields(fields, decl) ==
    /\ Len(fields.list) = Len(decl)
    /\ \A k \in 1..Len(decl) :
          /\ fields.list[k].id = DeclaredId(decl, k)
          /\ fields.list[k].ty = decl[k].ty
    /\ fields.shape = (IF decl = <<>> THEN "Unit"
                       ELSE IF AllNamed(decl) THEN "Named" ELSE "Indexed")

\* C16: the schema of a derived type mirrors its declaration: a struct's
\* fields, and the fields of each variant of an enum, appear in declaration
\* order, as Named with the declared names, as Indexed with the index of
\* each position, or as Unit when there are none.
C16_SchemaMirrorsDeclaration ==
    owner.ty \in Derived
    => LET info == get_dynamic(owner)
           decl == DeriveInput(owner.ty)
       IN  IF decl.data = "Struct"
              THEN MirrorsFields(info.fields, decl.fields)
              ELSE /\ Len(info.variants) = Len(decl.variants)
                   /\ \A k \in 1..Len(decl.variants) :
                         /\ info.variants[k].ident = decl.variants[k].ident
                         /\ MirrorsFields(info.variants[k].fields,
                                          decl.variants[k].fields)

\* C17: get_dynamic on a value returns, at every point of a run, the Schema
\* that is the static INFO of the value's type, whose ident is the declared
\* name of the type; and no step changes the Schema of the value.
C17_SchemaIsStaticInfo ==
    /\ [](/\ get_dynamic(owner) = TypeInfo_INFO(owner.ty)
          /\ get_dynamic(owner).ident = owner.ty)
    /\ [][get_dynamic(owner') = get_dynamic(owner)]_vars

\* C17 witness: a Pair whose fields were written, still with the INFO of Pair
C17_Witness ==
    /\ last.op = "write"
    /\ owner.ty = "Pair"
    /\ owner.slots # <<0, 0>>
    /\ get_dynamic(owner) = TypeInfo_INFO("Pair")
    /\ TypeInfo_INFO("Pair").ident = "Pair"

\* C18: handles of distinct fields never alias: for any two identifiers that
\* both resolve on the live value, field and field_mut return handles to the
\* same storage if and only if the identifiers are the same field; and a
\* write through field_mut(a) changes no field b different from a.
C18_DistinctFieldsDisjoint ==
    /\ [](\A a, b \in FieldIds :
             LET ra == field_mut(owner, "owner", a)
                 rb == field(owner, "owner", b)
             IN  (ra.ok /\ rb.ok)
                 => /\ ra.handle.ptr = rb.handle.ptr <=> a = b
                    /\ ra.handle.ptr = field(owner, "owner", a).handle.ptr
                    /\ rb.handle.ptr = field_mut(owner, "owner", b).handle.ptr)
    /\ [][last'.op = "write"
             => \A b \in FieldIds \ {last'.id} :
                   \A k \in DeclaredAt(owner, b) :
                      /\ ReadDirect(owner', k) = ReadDirect(owner, k)
                      /\ LET r == field(owner', "owner", b)
                         IN  r.ok /\ owner'.slots[r.handle.ptr.slot]
                                       = ReadDirect(owner, k)
         ]_vars

\* C18 witness: a of a Pair was written through field_mut("a") to a value b
\* does not hold, and the handles of a and b point at different storage
C18_Witness ==
    /\ last.op = "write"
    /\ owner.ty = "Pair"
    /\ last.id = Named("a")
    /\ owner.slots[1] = last.v
    /\ owner.slots[2] # last.v
    /\ field_mut(owner, "owner", Named("a")).handle.ptr
         # field(owner, "owner", Named("b")).handle.ptr

\* C19: the borrow discipline holds for the references the protocol hands
\* out: among the references the caller holds at any point, a mutable
\* reference to a field's storage is the only reference to that storage
\* (two successive downcast_mut calls on one UnsizeableMut included).
C19_BorrowDiscipline ==
    \A i, j \in 1..Len(live) :
        (i # j /\ live[i].ptr = live[j].ptr) => (~live[i].mut /\ ~live[j].mut)

\* C20: the active variant of an enum value is invariant under reflection:
\* no step but the replacement of the whole value (no field or field_mut
\* call, Ok or Err, no downcast, no write through a reference they yield)
\* changes the type or the active variant of the value, and a failed field
\* or field_mut call leaves the whole value as it was.
C20_ActiveVariantStable ==
    [][IsEnum(owner)
         => /\ last'.op # "replace"
                 => /\ owner'.ty = owner.ty
                    /\ owner'.variant = owner.variant
                    /\ Len(owner'.slots) = Len(owner.slots)
            /\ (last'.op \in {"field", "field_mut"} /\ ~last'.fres.ok)
                 => owner' = owner
      ]_vars

\* C20 witness: the field w of a Shape::Rect was written through
\* field_mut("w") and the value is still a Rect
C20_Witness ==
    /\ last.op = "write"
    /\ owner.ty = "Shape"
    /\ owner.variant = "Rect"
    /\ last.id = Named("w")
    /\ owner.slots = <<last.v>>
    /\ last.v # 0

\* C20 witness of a failed call: field_mut of an identifier the active
\* variant does not declare, on a Rect that was written before
C20_WitnessFailed ==
    /\ last.op = "field_mut"
    /\ ~last.fres.ok
    /\ owner.ty = "Shape"
    /\ owner.variant = "Rect"
    /\ owner.slots # <<0>>

====
